---- MODULE Spec2Model ----
(***************************************************************************)
(* A state-machine model of geointel_optimized.py: the resilient fetcher   *)
(* (requests_with_optional_proxy), the concurrent proxy verifier           *)
(* (GeoIntel.verify_proxies over a ThreadPoolExecutor), the ip-api retry   *)
(* loop (GeoIntel.query_geolocation) and the run that chains them          *)
(* (GeoIntel.run_single).                                                  *)
(***************************************************************************)
EXTENDS Integers, Sequences, FiniteSets, TLC

VARIABLES
    \* ---- requests_with_optional_proxy (one call) ----
    fpc,        \* position in the call: idle, direct, fallback, proxy, final, ret, raised
    fcaller,    \* who called: "test" (stand-alone), "ipapi", "ipwho", "opencage"
    fproxies,   \* the proxies argument
    shuffled,   \* the shuffled copy
    fidx,       \* position of the for loop in shuffled
    r,          \* the direct response, or None
    r2,         \* the proxy response of the current iteration (None once the loop moves on)
    fret,       \* the value returned
    attempts,   \* network attempts of the call, in order: "direct" or a proxy address
    accepted,   \* per attempt: did it come back 2xx and not a challenge
    calls,      \* who has called the fetcher so far, in order
    \* ---- GeoIntel.verify_proxies (one call) and its ThreadPoolExecutor ----
    vpc,        \* position of the calling thread: idle, submit, loop, shutdown, ret
    cands,      \* the proxies argument
    max_workers,\* self.max_workers
    tasks,      \* per submitted future: st (queued, stage1, stage2, done), conn and
                \* fwd (what the two checks gave), res (what verify_proxy_full returned)
    yielded,    \* futures as_completed has handed to the loop body
    vlocal,     \* the local list `verified`
    failed,     \* the local counter `failed`
    broke,      \* the loop saw the stop event and left through break
    vret,       \* the list verify_proxies returned
    \* ---- the GeoIntel object ----
    stop,       \* self._stop_event
    verified,   \* self.verified
    threads,    \* the max_workers argument of GeoIntel(...): 0 stands for None
    cpu,        \* what os.cpu_count() gave: 0 stands for None
    \* ---- GeoIntel.query_geolocation (one call) ----
    qpc,        \* position: idle, loop, ipapi, ipwho, done
    tries,      \* the local counter `tries`
    backoff,    \* the local `backoff`
    ipapi,      \* the local `ipapi`
    ipwho,      \* the local `ipwho`
    sleeps,     \* the time.sleep calls of the query, in order
    observed,   \* the while condition has seen the stop event set
    \* ---- GeoIntel.run_single and the world around it ----
    pc,         \* position: load, scrape, dedup, verify, verifying, save1, target,
                \* query, opencage, finally, done
    file,       \* the file at self.working_save_path
    proxies,    \* self.proxies
    src,        \* scrape_proxies: index of the source being scraped
    all_proxies,\* scrape_proxies: the local list
    scraped,    \* scrape_proxies: per source scraped so far, how it ended and what it gave
    lastSave,   \* how the latest save_working_proxies ended: none, ok, failed
    \* ---- a function of the module called on its own ----
    fn,         \* which: none, is_cloudflare_challenge, merge_geo_data, save_working_proxies
    cpc,        \* position: idle, call, saved (save done, load to come), ret
    cargs,      \* its arguments
    cret        \* what it returned

fetchVars == <<fpc, fcaller, fproxies, shuffled, fidx, r, r2, fret, attempts, accepted, calls>>

verifyVars == <<vpc, cands, max_workers, tasks, yielded, vlocal, failed, broke, vret>>

objVars == <<stop, verified, threads, cpu>>

queryVars == <<qpc, tries, backoff, ipapi, ipwho, sleeps, observed>>

runVars == <<pc, file, proxies, src, all_proxies, scraped, lastSave>>

callVars == <<fn, cpc, cargs, cret>>

vars == <<fetchVars, verifyVars, objVars, queryVars, runVars, callVars>>

-----------------------------------------------------------------------------
\* Bounds of the model

\* longest proxy list handed to one stand-alone fetcher call
MaxProxies == 3

\* longest candidate list handed to one stand-alone verify_proxies call
MaxCand == 3

\* largest worker count tried (the program's cap is DEFAULT_MAX_WORKERS)
MaxWorkers == 2

\* proxy addresses (host:port strings)
Addr == {"10.0.0.1:80", "10.0.0.2:80", "10.0.0.3:80"}

\* the addresses candidate lists are drawn from
CandAddr == {"10.0.0.1:80", "10.0.0.2:80"}

-----------------------------------------------------------------------------
\* Sequences helpers

Range(s) == {s[i] : i \in DOMAIN s}

SeqsUpTo(S, n) == UNION {[1..k -> S] : k \in 0..n}

\* all orders random.shuffle can leave a list in
Shuffles(s) ==
    {[i \in DOMAIN s |-> s[f[i]]] :
        f \in {g \in [DOMAIN s -> DOMAIN s] : \A i, j \in DOMAIN s : i # j => g[i] # g[j]}}

-----------------------------------------------------------------------------
\* Responses.  text is the set of detector phrases the body contains; json is
\* what response.json() gives.

None == [kind |-> "None"]

Phrases ==
    {"cf-mitigation", "cf-browser-verification", "Just a moment...",
     "DDoS protection by Cloudflare", "Checking your browser before accessing",
     "Attention Required!", "Cloudflare"}

\* 'needle in text' for the phrases the detector looks for: the phrase
\* "DDoS protection by Cloudflare" contains the word "Cloudflare"
InText(needle, text) ==
    \/ needle \in text
    \/ needle = "Cloudflare" /\ "DDoS protection by Cloudflare" \in text

Resp(status, text, json) ==
    [kind |-> "Response", status |-> status, text |-> text, json |-> json]

\* a detector that takes the word Cloudflare as a challenge at any status
is_cloudflare_challenge_AnyStatus(response) ==
    IF response = None THEN FALSE
    ELSE \/ /\ response.status \in {403, 503, 520, 521}
            /\ \/ InText("cf-mitigation", response.text)
               \/ InText("cf-browser-verification", response.text)
         \/ InText("Just a moment...", response.text)
         \/ InText("DDoS protection by Cloudflare", response.text)
         \/ InText("Checking your browser before accessing", response.text)
         \/ InText("Attention Required!", response.text)
         \/ InText("Cloudflare", response.text)

\* lines 195-210
is_cloudflare_challenge(response) ==
    IF response = None THEN FALSE
    ELSE LET text == response.text
             status_code == response.status
         IN  \/ /\ status_code \in {403, 503, 520, 521}
                /\ \/ InText("cf-mitigation", text)
                   \/ InText("cf-browser-verification", text)
             \/ InText("Just a moment...", text)
             \/ InText("DDoS protection by Cloudflare", text)
             \/ InText("Checking your browser before accessing", text)
             \/ InText("Attention Required!", text)
             \/ InText("Cloudflare", text) /\ status_code >= 400

Is2xx(response) == 200 <= response.status /\ response.status < 300

\* a test that takes any 2xx response
Acceptable_Any2xx(response) == Is2xx(response)

\* the test of lines 223 and 237
Acceptable(response) == Is2xx(response) /\ ~is_cloudflare_challenge(response)

-----------------------------------------------------------------------------
\* Texts are sequences of characters, so that a substring test is a test.

NoResponseIpapi == <<"N", "o", " ", "r", "e", "s", "p", "o", "n", "s", "e", " ", "f", "r", "o", "m", " ", "i", "p", "-", "a", "p", "i">>
InvalidJsonIpapi == <<"I", "n", "v", "a", "l", "i", "d", " ", "J", "S", "O", "N", " ", "f", "r", "o", "m", " ", "i", "p", "-", "a", "p", "i">>
IpapiError == <<"i", "p", "-", "a", "p", "i", " ", "e", "r", "r", "o", "r">>
NoResponseIpwho == <<"N", "o", " ", "r", "e", "s", "p", "o", "n", "s", "e", " ", "f", "r", "o", "m", " ", "i", "p", "w", "h", "o", ".", "i", "s">>
InvalidJsonIpwho == <<"I", "n", "v", "a", "l", "i", "d", " ", "J", "S", "O", "N", " ", "f", "r", "o", "m", " ", "i", "p", "w", "h", "o", "i", "s">>
IpwhoError == <<"i", "p", "w", "h", "o", ".", "e", "r", "r", "o", "r">>
NotRun == <<"n", "o", "t", "-", "r", "u", "n">>
T429 == <<"4", "2", "9">>
TFail == <<"f", "a", "i", "l">>
TSuccess == <<"s", "u", "c", "c", "e", "s", "s">>
\* messages an upstream API may put in its JSON body
MsgRateLimited == <<"H", "T", "T", "P", " ", "4", "2", "9", " ", "T", "o", "o", " ", "M", "a", "n", "y">>
MsgPrivate == <<"p", "r", "i", "v", "a", "t", "e", " ", "r", "a", "n", "g", "e">>
MsgNear == <<"4", "2", " ", "9">>

\* 'needle in hay' of Python strings
IsSubstring(needle, hay) ==
    \E i \in 0..(Len(hay) - Len(needle)) :
        \A k \in 1..Len(needle) : hay[i + k] = needle[k]

UpperToLower ==
    [A |-> "a", B |-> "b", C |-> "c", D |-> "d", E |-> "e", F |-> "f", G |-> "g",
     H |-> "h", I |-> "i", J |-> "j", K |-> "k", L |-> "l", M |-> "m", N |-> "n",
     O |-> "o", P |-> "p", Q |-> "q", R |-> "r", S |-> "s", T |-> "t", U |-> "u",
     V |-> "v", W |-> "w", X |-> "x", Y |-> "y", Z |-> "z"]

\* str.lower()
Lower(text) ==
    [i \in DOMAIN text |->
        IF text[i] \in DOMAIN UpperToLower THEN UpperToLower[text[i]] ELSE text[i]]

\* JSON bodies: response.json() raises on JInvalid, gives a non-mapping on
\* JList and the mapping d on JDict(d)
JInvalid == [j |-> "invalid"]
JList == [j |-> "list"]
JDict(d) == [j |-> "dict", d |-> d]

\* dict.get(key) is truthy: the key is there and its text is not empty
Truthy(d, key) == key \in DOMAIN d /\ d[key] # <<>>

-----------------------------------------------------------------------------
\* What one network attempt can come back with

RequestExceptions == {"ConnectionError", "Timeout"}
\* cloudscraper's own exceptions derive from Exception, not RequestException
OtherExceptions == {"CloudflareException"}

Raise(e) == [kind |-> "Raise", exc |-> e]

\* what a server (or a proxy, or Cloudflare in front of it) may answer whatever
\* the URL
CommonResponses ==
    {Resp(200, {"Just a moment..."}, JInvalid),
     Resp(403, {"cf-mitigation"}, JInvalid),
     Resp(429, {}, JInvalid),
     Resp(404, {}, JInvalid)}

\* answers of http://ip-api.com/json/<ip> (line 253)
IpapiResponses ==
    {Resp(200, {}, JDict([status |-> TSuccess])),
     Resp(200, {}, JDict([status |-> TFail, message |-> MsgRateLimited])),
     Resp(200, {}, JDict([status |-> TFail, message |-> MsgPrivate])),
     Resp(200, {}, JDict([status |-> TFail, message |-> MsgNear])),
     Resp(200, {}, JDict([status |-> TFail])),
     Resp(200, {}, JList)}

\* answers of https://ipwho.is/<ip> (line 267)
IpwhoResponses ==
    {Resp(200, {}, JDict([success |-> TRUE])),
     Resp(200, {}, JDict([success |-> FALSE, message |-> MsgPrivate])),
     Resp(200, {}, JDict([success |-> FALSE]))}

\* answers of the OpenCage URL (line 283)
OpencageResponses == {Resp(200, {}, JDict([results |-> <<>>]))}

\* more statuses a proxy or a server can answer with: the other two of line
\* 241, and one that is none of them
OtherStatusResponses ==
    {Resp(402, {}, JInvalid), Resp(503, {}, JInvalid), Resp(500, {}, JInvalid)}

Responses(caller) ==
    CommonResponses \cup
        CASE caller = "ipwho" -> IpwhoResponses
          [] caller = "opencage" -> OpencageResponses
          [] caller = "test" -> IpapiResponses \cup OtherStatusResponses
          [] OTHER -> IpapiResponses

\* session.get(...) of line 222
DirectOutcomes(caller) == Responses(caller) \cup {Raise(e) : e \in RequestExceptions}
\* scraper.get(...) of line 236
ProxyOutcomes(caller) ==
    Responses(caller) \cup {Raise(e) : e \in RequestExceptions \cup OtherExceptions}

\* except requests.RequestException (line 225)
CaughtDirect(e) == e \in RequestExceptions
\* a handler as narrow as the direct attempt's
CaughtProxy_RequestOnly(e) == e \in RequestExceptions

\* except Exception (line 243)
CaughtProxy(e) == e \in RequestExceptions \cup OtherExceptions

-----------------------------------------------------------------------------
\* requests_with_optional_proxy

\* entering the function
FetchCall(caller, plist) ==
    /\ fpc' = "direct"
    /\ fcaller' = caller
    /\ fproxies' = plist
    /\ shuffled' = <<>>
    /\ fidx' = 0
    /\ r' = None
    /\ r2' = None
    /\ fret' = None
    /\ attempts' = <<>>
    /\ accepted' = <<>>
    /\ calls' = Append(calls, caller)

\* lines 220-226: the direct attempt
FetchDirect ==
    /\ fpc = "direct"
    /\ \E o \in DirectOutcomes(fcaller) :
        /\ attempts' = Append(attempts, "direct")
        /\ IF o.kind = "Raise"
           THEN /\ r' = None
                /\ fret' = None
                /\ accepted' = Append(accepted, FALSE)
                /\ fpc' = IF CaughtDirect(o.exc) THEN "fallback" ELSE "raised"
           ELSE /\ r' = o
                /\ accepted' = Append(accepted, Acceptable(o))
                /\ fret' = IF Acceptable(o) THEN o ELSE None
                /\ fpc' = IF Acceptable(o) THEN "ret" ELSE "fallback"
    /\ UNCHANGED <<fcaller, fproxies, shuffled, fidx, r2, calls>>

\* the caller has the returned value: the call's locals are gone
FetchBack ==
    /\ fpc' = "idle"
    /\ fcaller' = "test"
    /\ fproxies' = <<>>
    /\ shuffled' = <<>>
    /\ fidx' = 0
    /\ r' = None
    /\ r2' = None
    /\ fret' = None
    /\ attempts' = <<>>
    /\ accepted' = <<>>
    /\ UNCHANGED calls

\* lines 229-231: if proxies: shuffled = proxies.copy(); random.shuffle(shuffled)
FetchShuffle ==
    /\ fpc = "fallback"
    /\ IF fproxies # <<>>
       THEN /\ shuffled' \in Shuffles(fproxies)
            /\ fidx' = 1
            /\ fpc' = "proxy"
       ELSE /\ fpc' = "final"
            /\ UNCHANGED <<shuffled, fidx>>
    /\ UNCHANGED <<fcaller, fproxies, r, r2, fret, attempts, accepted, calls>>

\* a loop that does not return on a proxy's success
ProxyStep_NoReturn(o) ==
    IF o.kind = "Raise"
    THEN IF CaughtProxy(o.exc) THEN "next" ELSE "raised"
    ELSE "next"

\* a loop that gives up on a status that is neither a challenge nor one of
\* 402, 429, 503
ProxyStep_StopOnOtherStatus(o) ==
    IF o.kind = "Raise"
    THEN IF CaughtProxy(o.exc) THEN "next" ELSE "raised"
    ELSE IF Acceptable(o) THEN "return"
    ELSE IF is_cloudflare_challenge(o) \/ o.status \in {402, 429, 503} THEN "next"
    ELSE "break"

\* what the loop does after the attempt through shuffled[fidx] came back as o
ProxyStep(o) ==
    IF o.kind = "Raise"
    THEN IF CaughtProxy(o.exc) THEN "next" ELSE "raised"
    ELSE IF Acceptable(o) THEN "return"
    ELSE IF is_cloudflare_challenge(o) \/ o.status \in {402, 429, 503} THEN "next"
    ELSE "next"

\* lines 232-245: one iteration of the for loop
FetchProxy ==
    /\ fpc = "proxy"
    /\ fidx <= Len(shuffled)
    /\ \E o \in ProxyOutcomes(fcaller) :
        LET step == ProxyStep(o) IN
        /\ attempts' = Append(attempts, shuffled[fidx])
        /\ accepted' = Append(accepted, IF o.kind = "Raise" THEN FALSE ELSE Acceptable(o))
        /\ r2' = IF o.kind # "Raise" /\ Acceptable(o) THEN o ELSE None
        /\ fret' = IF step = "return" THEN o ELSE fret
        /\ fidx' = fidx + 1
        /\ fpc' = CASE step = "return" -> "ret"
                    [] step = "raised" -> "raised"
                    [] step = "break" -> "final"
                    [] OTHER -> IF fidx = Len(shuffled) THEN "final" ELSE "proxy"
    /\ UNCHANGED <<fcaller, fproxies, shuffled, r, calls>>

\* lines 247-250: the final fallback
FetchFinal ==
    /\ fpc = "final"
    /\ fret' = IF r # None /\ Is2xx(r) THEN r ELSE None
    /\ fpc' = "ret"
    /\ UNCHANGED <<fcaller, fproxies, shuffled, fidx, r, r2, attempts, accepted, calls>>

-----------------------------------------------------------------------------
\* Proxy verification: verify_proxy_full run by the executor's workers

\* what socket.create_connection (and the parse before it) can do
ConnectOutcomes == {"connected", "refused", "timeout", "malformed"}
\* what requests.get through the proxy can do
ForwardOutcomes == {"200 body", "200 empty", "non-200", "exception"}

\* lines 163-171: every exception gives False
is_proxy_connectable(outcome) == outcome = "connected"

\* lines 173-183: True only for status 200 with a non-empty body
is_proxy_forwarding_http(outcome) == outcome = "200 body"

\* a verify_proxy_full that goes on to the HTTP check whatever stage 1 gave
AfterConnect_Always(connectable) == "forward"

\* lines 187-190: what verify_proxy_full does once is_proxy_connectable is back
AfterConnect(connectable) == IF ~connectable THEN "reject" ELSE "forward"

\* a loop body that appends whatever future.result() gave
Recorded_Any(list, p, ok) == Append(list, p)

\* lines 360-364: the loop body's use of future.result()
Recorded(list, p, ok) == IF ok THEN Append(list, p) ELSE list

NewTask == [st |-> "queued", conn |-> "none", fwd |-> "none", res |-> FALSE]

Running == {i \in DOMAIN tasks : tasks[i].st \in {"stage1", "stage2"}}
Queued == {i \in DOMAIN tasks : tasks[i].st = "queued"}
Done == {i \in DOMAIN tasks : tasks[i].st = "done"}

\* line 59: MAX_WORKERS is not set in the environment
DEFAULT_MAX_WORKERS == 50

Min(a, b) == IF a <= b THEN a ELSE b
Max(a, b) == IF a >= b THEN a ELSE b

\* what os.cpu_count() can give (0 for None)
CpuCounts == {0, 1, 16}

\* lines 303-304: cpu = os.cpu_count() or 4;
\* self.max_workers = max_workers or min(DEFAULT_MAX_WORKERS, max(10, cpu * 5))
AdaptiveWorkers(arg, count) ==
    LET n == IF count # 0 THEN count ELSE 4
    IN  IF arg # 0 THEN arg ELSE Min(DEFAULT_MAX_WORKERS, Max(10, n * 5))

VerifyIdle ==
    /\ vpc = "idle"
    /\ cands = <<>>
    /\ max_workers = 1
    /\ tasks = <<>>
    /\ yielded = {}
    /\ vlocal = <<>>
    /\ failed = 0
    /\ broke = FALSE
    /\ vret = <<>>

\* entering verify_proxies(plist) with self.max_workers = w
VerifyCall(plist, w) ==
    /\ vpc' = "submit"
    /\ cands' = plist
    /\ max_workers' = w
    /\ tasks' = <<>>
    /\ yielded' = {}
    /\ vlocal' = <<>>
    /\ failed' = 0
    /\ broke' = FALSE
    /\ vret' = <<>>

\* lines 341-353: the early return for an empty list, else one future per
\* entry of the list, queued in list order
VerifySubmit ==
    /\ vpc = "submit"
    /\ IF cands = <<>>
       THEN /\ vpc' = "ret"
            /\ vret' = <<>>
            /\ UNCHANGED tasks
       ELSE /\ vpc' = "loop"
            /\ tasks' = [i \in DOMAIN cands |-> NewTask]
            /\ UNCHANGED vret
    /\ UNCHANGED <<cands, max_workers, yielded, vlocal, failed, broke, objVars>>

\* an executor that starts a thread for every queued item
HasFreeWorker_Always == TRUE

\* ThreadPoolExecutor(max_workers=self.max_workers): a queued item is taken
\* only by one of at most max_workers threads, each running one item at a time
HasFreeWorker == Cardinality(Running) < max_workers

\* a worker thread takes the head of the work queue
WorkerStart ==
    /\ Queued # {}
    /\ HasFreeWorker
    /\ LET i == CHOOSE k \in Queued : \A m \in Queued : k <= m
       IN  tasks' = [tasks EXCEPT ![i].st = "stage1"]
    /\ UNCHANGED <<vpc, cands, max_workers, yielded, vlocal, failed, broke, vret, objVars>>

\* line 187: is_proxy_connectable comes back
WorkerStage1(i) ==
    /\ tasks[i].st = "stage1"
    /\ \E c \in ConnectOutcomes :
        LET ok == is_proxy_connectable(c) IN
        tasks' = [tasks EXCEPT
                    ![i].conn = IF ok THEN "ok" ELSE "fail",
                    ![i].st = IF AfterConnect(ok) = "forward" THEN "stage2" ELSE "done",
                    ![i].fwd = IF AfterConnect(ok) = "forward" THEN "sent" ELSE "none",
                    ![i].res = FALSE]
    /\ UNCHANGED <<vpc, cands, max_workers, yielded, vlocal, failed, broke, vret, objVars>>

\* line 190: is_proxy_forwarding_http comes back and is the task's result
WorkerStage2(i) ==
    /\ tasks[i].st = "stage2"
    /\ \E f \in ForwardOutcomes :
        LET ok == is_proxy_forwarding_http(f) IN
        tasks' = [tasks EXCEPT
                    ![i].fwd = IF ok THEN "ok" ELSE "fail",
                    ![i].st = "done",
                    ![i].res = ok]
    /\ UNCHANGED <<vpc, cands, max_workers, yielded, vlocal, failed, broke, vret, objVars>>

\* lines 354-367: as_completed hands over a finished future; the body checks
\* the stop event first
VerifyLoopBody(i) ==
    /\ vpc = "loop"
    /\ i \in Done \ yielded
    /\ IF stop
       THEN /\ broke' = TRUE
            /\ vpc' = "shutdown"
            /\ UNCHANGED <<yielded, vlocal, failed>>
       ELSE /\ yielded' = yielded \cup {i}
            /\ vlocal' = Recorded(vlocal, cands[i], tasks[i].res)
            /\ failed' = IF tasks[i].res THEN failed ELSE failed + 1
            /\ UNCHANGED <<vpc, broke>>
    /\ UNCHANGED <<cands, max_workers, tasks, vret, objVars>>

\* as_completed is exhausted: the for loop ends
VerifyLoopEnd ==
    /\ vpc = "loop"
    /\ yielded = DOMAIN tasks
    /\ vpc' = "shutdown"
    /\ UNCHANGED <<cands, max_workers, tasks, yielded, vlocal, failed, broke, vret, objVars>>

\* lines 352, 368-370: leaving the with block is executor.shutdown(wait=True),
\* which joins the workers after they have drained the queue; then
\* self.verified = verified; return verified
VerifyReturn ==
    /\ vpc = "shutdown"
    /\ Done = DOMAIN tasks
    /\ verified' = vlocal
    /\ vret' = vlocal
    /\ vpc' = "ret"
    /\ UNCHANGED <<cands, max_workers, tasks, yielded, vlocal, failed, broke, stop, threads, cpu>>

\* lines 314-316: SIGINT or SIGTERM arrives
Signal ==
    /\ ~stop
    /\ stop' = TRUE
    /\ UNCHANGED <<verified, threads, cpu>>

-----------------------------------------------------------------------------
\* fetch_ipapi, fetch_ipwhois and GeoIntel.query_geolocation

Err(text) == [error |-> text]

\* lines 255-264, given what requests_with_optional_proxy returned
IpapiResult(resp) ==
    IF resp = None THEN Err(NoResponseIpapi)
    ELSE IF resp.json.j # "dict" THEN Err(InvalidJsonIpapi)
    ELSE LET data == resp.json.d IN
         IF "status" \in DOMAIN data /\ data.status = TFail
         THEN Err(IF "message" \in DOMAIN data THEN data.message ELSE IpapiError)
         ELSE data

\* lines 269-278
IpwhoResult(resp) ==
    IF resp = None THEN Err(NoResponseIpwho)
    ELSE IF resp.json.j # "dict" THEN Err(InvalidJsonIpwho)
    ELSE LET data == resp.json.d IN
         IF "success" \in DOMAIN data /\ data.success = FALSE
         THEN Err(IF "message" \in DOMAIN data THEN data.message ELSE IpwhoError)
         ELSE data

\* a loop that tries again after any error
RetryAfter_AnyError(result) == Truthy(result, "error")

\* lines 436-446: the loop goes round again (after a sleep) exactly when the
\* result has a truthy error whose text, lower-cased, contains "429"
RetryAfter(result) ==
    /\ Truthy(result, "error")
    /\ IsSubstring(T429, Lower(result.error))

\* line 427
max_tries == 3

\* passing the candidate list instead of the verified one
FetchProxies_Candidates == proxies

\* lines 435, 449, 513: proxies=self.verified
FetchProxies == verified

QueryIdle ==
    /\ qpc = "idle"
    /\ tries = 0
    /\ backoff = 1
    /\ ipapi = Err(NotRun)
    /\ ipwho = Err(NotRun)
    /\ sleeps = <<>>
    /\ observed = FALSE

\* lines 424-430: entering query_geolocation
QueryCall ==
    /\ qpc' = "loop"
    /\ tries' = 0
    /\ backoff' = 1
    /\ ipapi' = Err(NotRun)
    /\ ipwho' = Err(NotRun)
    /\ sleeps' = <<>>
    /\ observed' = FALSE

\* run_single has what query_geolocation returned: the call's locals are gone
QueryBack ==
    /\ qpc' = "idle"
    /\ tries' = 0
    /\ backoff' = 1
    /\ ipapi' = Err(NotRun)
    /\ ipwho' = Err(NotRun)
    /\ sleeps' = <<>>
    /\ observed' = FALSE

\* lines 432-435: the while condition, and when it holds the next fetch_ipapi
QueryLoop ==
    /\ qpc = "loop"
    /\ fpc = "idle"
    /\ IF tries < max_tries /\ ~stop
       THEN /\ tries' = tries + 1
            /\ qpc' = "ipapi"
            /\ FetchCall("ipapi", FetchProxies)
            /\ UNCHANGED observed
       ELSE /\ qpc' = "ipwho"
            /\ observed' = (observed \/ (tries < max_tries /\ stop))
            /\ UNCHANGED <<tries, fetchVars>>
    /\ UNCHANGED <<backoff, ipapi, ipwho, sleeps>>

\* lines 435-446: fetch_ipapi is back
QueryIpapiBack ==
    /\ qpc = "ipapi"
    /\ fpc = "ret"
    /\ fcaller = "ipapi"
    /\ LET res == IpapiResult(fret) IN
        /\ ipapi' = res
        /\ IF RetryAfter(res)
           THEN /\ sleeps' = Append(sleeps, backoff)
                /\ backoff' = backoff * 2
                /\ qpc' = "loop"
           ELSE /\ qpc' = "ipwho"
                /\ UNCHANGED <<sleeps, backoff>>
    /\ FetchBack
    /\ UNCHANGED <<tries, ipwho, observed>>

\* line 449: fetch_ipwhois, whatever the loop ended on
QueryIpwho ==
    /\ qpc = "ipwho"
    /\ fpc = "idle"
    /\ qpc' = "ipwho_wait"
    /\ FetchCall("ipwho", FetchProxies)
    /\ UNCHANGED <<tries, backoff, ipapi, ipwho, sleeps, observed>>

\* lines 449-453: fetch_ipwhois is back; merge and return
QueryIpwhoBack ==
    /\ qpc = "ipwho_wait"
    /\ fpc = "ret"
    /\ fcaller = "ipwho"
    /\ ipwho' = IpwhoResult(fret)
    /\ qpc' = "done"
    /\ FetchBack
    /\ UNCHANGED <<tries, backoff, ipapi, sleeps, observed>>

-----------------------------------------------------------------------------
\* The persisted proxy file and scrape_proxies

\* The text of the file is a sequence of tokens: an address (which has no
\* white space inside), a blank " ", or the line end "\n".
NoFile == [exists |-> FALSE, text |-> <<>>]

RECURSIVE WriteText(_)
\* lines 118-119: for p in proxies: f.write(p + "\n")
WriteText(list) ==
    IF list = <<>> THEN <<>>
    ELSE WriteText(SubSeq(list, 1, Len(list) - 1)) \o <<list[Len(list)], "\n">>

\* a save that writes the first entry only
FileOf_FirstOnly(list) ==
    [exists |-> TRUE, text |-> WriteText(SubSeq(list, 1, IF list = <<>> THEN 0 ELSE 1))]

\* lines 117-119: the file once open(path, "w") and every write succeeded
FileOf(list) == [exists |-> TRUE, text |-> WriteText(list)]

RECURSIVE SplitLines(_)
\* line 113, `for line in f`: the lines of the text, without their line ends
\* (a last line need not have one)
SplitLines(text) ==
    IF text = <<>> THEN <<>>
    ELSE LET n == Len(text)
             front == SplitLines(SubSeq(text, 1, n - 1))
         IN  IF text[n] = "\n"
             THEN IF n > 1 /\ text[n - 1] # "\n" THEN front ELSE Append(front, <<>>)
             ELSE IF n > 1 /\ text[n - 1] # "\n"
                  THEN [front EXCEPT ![Len(front)] = Append(@, text[n])]
                  ELSE Append(front, <<text[n]>>)

RECURSIVE Strip(_)
\* line 113, line.strip(): no white space at either end
Strip(line) ==
    IF line = <<>> THEN <<>>
    ELSE IF line[1] = " " THEN Strip(Tail(line))
    ELSE IF line[Len(line)] = " " THEN Strip(SubSeq(line, 1, Len(line) - 1))
    ELSE line

RECURSIVE StrippedNonEmpty(_)
\* line 113: [line.strip() for line in f if line.strip()]; what is left of a
\* line is one address
StrippedNonEmpty(lines) ==
    IF lines = <<>> THEN <<>>
    ELSE LET front == StrippedNonEmpty(SubSeq(lines, 1, Len(lines) - 1))
             last == Strip(lines[Len(lines)])
         IN  IF last = <<>> THEN front ELSE Append(front, last[1])

\* lines 109-113
load_saved_proxies(f) ==
    IF ~f.exists THEN <<>> ELSE StrippedNonEmpty(SplitLines(f.text))

\* lines 115-122: the file after save_working_proxies(path, list) ended as
\* `how`: written; open() raised; a write raised after k lines
Saved(f, list, how, k) ==
    CASE how = "ok" -> FileOf(list)
      [] how = "open_fails" -> f
      [] OTHER -> FileOf(SubSeq(list, 1, k))

SaveOutcomes(list) ==
    {<<"ok", Len(list)>>, <<"open_fails", 0>>} \cup
    {<<"write_fails", k>> : k \in 0..(Len(list) - 1)}

\* a scrape that returns the addresses as collected
Dedup_None(list) == list

RECURSIVE Dedup(_)
\* line 335: list(dict.fromkeys(all_proxies))
Dedup(list) ==
    IF list = <<>> THEN <<>>
    ELSE LET front == Dedup(SubSeq(list, 1, Len(list) - 1))
             last == list[Len(list)]
         IN  IF last \in Range(front) THEN front ELSE Append(front, last)

\* what is in working_proxies.txt when a run starts: nothing, one address
\* on a line with blanks around it and an empty line after it, two addresses,
\* the same address twice
FileInputs ==
    {NoFile,
     [exists |-> TRUE, text |-> <<" ", "10.0.0.1:80", " ", "\n", "\n">>],
     FileOf(<<"10.0.0.1:80", "10.0.0.2:80">>),
     FileOf(<<"10.0.0.2:80", "10.0.0.2:80">>)}

\* the addresses a source's page can list
ScrapeResults ==
    {<<>>, <<"10.0.0.1:80">>, <<"10.0.0.2:80", "10.0.0.1:80">>}

\* how fetching and parsing one source can go: requests.get raises,
\* raise_for_status raises, the page has no table, or the page is parsed and
\* lists some addresses
SourceOutcomes ==
    {[kind |-> k, listed |-> <<>>] : k \in {"network error", "http error", "no table"}}
    \cup {[kind |-> "page", listed |-> l] : l \in ScrapeResults}

\* a scraper that lets the exception of a failed source out
SourceReturns_OnlyPages(o) == o.kind \in {"page", "no table"}

\* lines 129-145 and 147-158: every exception is caught inside the function,
\* which returns in every case
SourceReturns(o) == TRUE

\* lines 128-145 and 148-158: the list the function returns
SourceFound(o) == IF o.kind = "page" THEN o.listed ELSE <<>>

\* number of entries of PROXY_SOURCES
NumSources == 2

-----------------------------------------------------------------------------
\* GeoIntel.run_single

\* lines 461-471: load the saved list; it goes in front of self.proxies, and
\* scraping is skipped when it is not empty
RunLoad ==
    /\ pc = "load"
    /\ LET saved == load_saved_proxies(file) IN
        IF saved # <<>>
        THEN /\ proxies' = saved \o proxies
             /\ pc' = "verify"
             /\ UNCHANGED src
        ELSE /\ pc' = "scrape"
             /\ src' = 1
             /\ UNCHANGED proxies
    /\ UNCHANGED <<file, all_proxies, scraped, lastSave>>
    /\ UNCHANGED <<fetchVars, verifyVars, objVars, queryVars, callVars>>

\* lines 322-334: one source of the loop of scrape_proxies
RunScrapeSource ==
    /\ pc = "scrape"
    /\ \E o \in SourceOutcomes :
        /\ scraped' = Append(scraped, [kind |-> o.kind, found |-> SourceFound(o)])
        /\ IF SourceReturns(o)
           THEN /\ all_proxies' = all_proxies \o SourceFound(o)
                /\ IF stop \/ src = NumSources
                   THEN pc' = "dedup" /\ UNCHANGED src
                   ELSE src' = src + 1 /\ UNCHANGED pc
           ELSE /\ pc' = "finally"
                /\ UNCHANGED <<src, all_proxies>>
    /\ UNCHANGED <<file, proxies, lastSave>>
    /\ UNCHANGED <<fetchVars, verifyVars, objVars, queryVars, callVars>>

\* lines 335-338
RunScrapeDedup ==
    /\ pc = "dedup"
    /\ proxies' = Dedup(all_proxies)
    /\ pc' = "verify"
    /\ src' = 0
    /\ all_proxies' = <<>>
    /\ scraped' = <<>>
    /\ UNCHANGED <<file, lastSave>>
    /\ UNCHANGED <<fetchVars, verifyVars, objVars, queryVars, callVars>>

\* lines 478-479
RunVerify ==
    /\ pc = "verify"
    /\ IF proxies # <<>>
       THEN /\ VerifyCall(proxies, max_workers)
            /\ pc' = "verifying"
       ELSE /\ pc' = "save1"
            /\ UNCHANGED verifyVars
    /\ UNCHANGED <<file, proxies, src, all_proxies, scraped, lastSave>>
    /\ UNCHANGED <<fetchVars, objVars, queryVars, callVars>>

\* verify_proxies is back; its locals are gone (tasks and cands are kept as
\* the record of what was checked)
RunVerifyBack ==
    /\ pc = "verifying"
    /\ vpc = "ret"
    /\ vpc' = "idle"
    /\ yielded' = {}
    /\ vlocal' = <<>>
    /\ failed' = 0
    /\ vret' = <<>>
    /\ pc' = "save1"
    /\ UNCHANGED <<cands, max_workers, tasks, broke>>
    /\ UNCHANGED <<file, proxies, src, all_proxies, scraped, lastSave>>
    /\ UNCHANGED <<fetchVars, objVars, queryVars, callVars>>

\* lines 372-376 under the guard `if self.verified:` of lines 482 and 522
SaveIfVerified ==
    IF verified # <<>>
    THEN \E o \in SaveOutcomes(verified) :
            /\ file' = Saved(file, verified, o[1], o[2])
            /\ lastSave' = IF o[1] = "ok" THEN "ok" ELSE "failed"
    ELSE UNCHANGED <<file, lastSave>>

\* lines 481-483
RunSave ==
    /\ pc = "save1"
    /\ SaveIfVerified
    /\ pc' = "target"
    /\ UNCHANGED <<proxies, src, all_proxies, scraped>>
    /\ UNCHANGED <<fetchVars, verifyVars, objVars, queryVars, callVars>>

\* lines 485-504: with a target (given, or auto-detected) go on to
\* query_geolocation; without one (detection failed, or none given) return
RunTarget ==
    /\ pc = "target"
    /\ \E have \in BOOLEAN :
        IF have
        THEN /\ pc' = "query"
             /\ QueryCall
        ELSE /\ pc' = "finally"
             /\ UNCHANGED queryVars
    /\ UNCHANGED <<file, proxies, src, all_proxies, scraped, lastSave>>
    /\ UNCHANGED <<fetchVars, verifyVars, objVars, callVars>>

\* lines 506-515: query_geolocation is back; fetch_opencage is called when a
\* key is configured, reverse geocoding is wanted and lat and lon are there
RunOpencage ==
    /\ pc = "query"
    /\ qpc = "done"
    /\ fpc = "idle"
    /\ \E wanted \in BOOLEAN :
        IF wanted
        THEN /\ pc' = "opencage"
             /\ FetchCall("opencage", FetchProxies)
        ELSE /\ pc' = "finally"
             /\ UNCHANGED fetchVars
    /\ QueryBack
    /\ UNCHANGED <<file, proxies, src, all_proxies, scraped, lastSave>>
    /\ UNCHANGED <<verifyVars, objVars, callVars>>

\* lines 513-518: fetch_opencage is back; display
RunOpencageBack ==
    /\ pc = "opencage"
    /\ fpc = "ret"
    /\ FetchBack
    /\ pc' = "finally"
    /\ UNCHANGED <<file, proxies, src, all_proxies, scraped, lastSave>>
    /\ UNCHANGED <<verifyVars, objVars, queryVars, callVars>>

\* lines 520-524
RunFinally ==
    /\ pc = "finally"
    /\ SaveIfVerified
    /\ pc' = "done"
    /\ UNCHANGED <<proxies, src, all_proxies, scraped>>
    /\ UNCHANGED <<fetchVars, verifyVars, objVars, queryVars, callVars>>

FetchIdle ==
    /\ fpc = "idle"
    /\ fcaller = "test"
    /\ fproxies = <<>>
    /\ shuffled = <<>>
    /\ fidx = 0
    /\ r = None
    /\ r2 = None
    /\ fret = None
    /\ attempts = <<>>
    /\ accepted = <<>>
    /\ calls = <<>>

CallIdle ==
    /\ fn = "none"
    /\ cpc = "idle"
    /\ cargs = <<>>
    /\ cret = <<>>

RunIdle ==
    /\ pc = "idle"
    /\ file = NoFile
    /\ proxies = <<>>
    /\ src = 0
    /\ all_proxies = <<>>
    /\ scraped = <<>>
    /\ lastSave = "none"

-----------------------------------------------------------------------------
\* One run of the program: GeoIntel(...) then run_single, with the signal
\* arriving at any moment

Init ==
    /\ FetchIdle
    /\ vpc = "idle"
    /\ cands = <<>>
    /\ threads = MaxWorkers
    /\ cpu = 1
    /\ max_workers = AdaptiveWorkers(threads, cpu)
    /\ tasks = <<>>
    /\ yielded = {}
    /\ vlocal = <<>>
    /\ failed = 0
    /\ broke = FALSE
    /\ vret = <<>>
    /\ stop = FALSE
    /\ verified = <<>>
    /\ QueryIdle
    /\ pc = "load"
    /\ file \in FileInputs
    /\ proxies = <<>>
    /\ src = 0
    /\ all_proxies = <<>>
    /\ scraped = <<>>
    /\ lastSave = "none"
    /\ CallIdle

Next ==
    \/ RunLoad
    \/ RunScrapeSource
    \/ RunScrapeDedup
    \/ RunVerify
    \/ VerifySubmit /\ UNCHANGED <<fetchVars, queryVars, runVars, callVars>>
    \/ WorkerStart /\ UNCHANGED <<fetchVars, queryVars, runVars, callVars>>
    \/ \E i \in DOMAIN tasks : WorkerStage1(i) /\ UNCHANGED <<fetchVars, queryVars, runVars, callVars>>
    \/ \E i \in DOMAIN tasks : WorkerStage2(i) /\ UNCHANGED <<fetchVars, queryVars, runVars, callVars>>
    \/ \E i \in DOMAIN tasks : VerifyLoopBody(i) /\ UNCHANGED <<fetchVars, queryVars, runVars, callVars>>
    \/ VerifyLoopEnd /\ UNCHANGED <<fetchVars, queryVars, runVars, callVars>>
    \/ VerifyReturn /\ UNCHANGED <<fetchVars, queryVars, runVars, callVars>>
    \/ RunVerifyBack
    \/ RunSave
    \/ RunTarget
    \/ QueryLoop /\ UNCHANGED <<verifyVars, objVars, runVars, callVars>>
    \/ QueryIpapiBack /\ UNCHANGED <<verifyVars, objVars, runVars, callVars>>
    \/ QueryIpwho /\ UNCHANGED <<verifyVars, objVars, runVars, callVars>>
    \/ QueryIpwhoBack /\ UNCHANGED <<verifyVars, objVars, runVars, callVars>>
    \/ FetchDirect /\ UNCHANGED <<verifyVars, objVars, queryVars, runVars, callVars>>
    \/ FetchShuffle /\ UNCHANGED <<verifyVars, objVars, queryVars, runVars, callVars>>
    \/ FetchProxy /\ UNCHANGED <<verifyVars, objVars, queryVars, runVars, callVars>>
    \/ FetchFinal /\ UNCHANGED <<verifyVars, objVars, queryVars, runVars, callVars>>
    \/ RunOpencage
    \/ RunOpencageBack
    \/ RunFinally
    \/ pc # "done" /\ Signal /\ UNCHANGED <<fetchVars, verifyVars, queryVars, runVars, callVars>>

Spec == Init /\ [][Next]_vars

-----------------------------------------------------------------------------
\* verify_proxies alone: one call, for every candidate list up to MaxCand and
\* every worker count up to MaxWorkers or left to the adaptive default
\* (the CPU count is varied where it is used: when no count is given)
\* (which address comes first makes no difference to the checks: the lists
\* start with the same one)

VerifyInit ==
    /\ vpc = "submit"
    /\ cands \in {s \in SeqsUpTo(CandAddr, MaxCand) : s = <<>> \/ s[1] = "10.0.0.1:80"}
    /\ threads \in 0..MaxWorkers
    /\ cpu \in IF threads = 0 THEN CpuCounts ELSE {1}
    /\ max_workers = AdaptiveWorkers(threads, cpu)
    /\ tasks = <<>>
    /\ yielded = {}
    /\ vlocal = <<>>
    /\ failed = 0
    /\ broke = FALSE
    /\ vret = <<>>
    /\ stop = FALSE
    /\ verified = <<>>
    /\ FetchIdle
    /\ QueryIdle
    /\ RunIdle
    /\ CallIdle

VerifyNext ==
    \/ VerifySubmit /\ UNCHANGED <<fetchVars, queryVars, runVars, callVars>>
    \/ WorkerStart /\ UNCHANGED <<fetchVars, queryVars, runVars, callVars>>
    \/ \E i \in DOMAIN tasks : WorkerStage1(i) /\ UNCHANGED <<fetchVars, queryVars, runVars, callVars>>
    \/ \E i \in DOMAIN tasks : WorkerStage2(i) /\ UNCHANGED <<fetchVars, queryVars, runVars, callVars>>
    \/ \E i \in DOMAIN tasks : VerifyLoopBody(i) /\ UNCHANGED <<fetchVars, queryVars, runVars, callVars>>
    \/ VerifyLoopEnd /\ UNCHANGED <<fetchVars, queryVars, runVars, callVars>>
    \/ VerifyReturn /\ UNCHANGED <<fetchVars, queryVars, runVars, callVars>>
    \/ Signal /\ UNCHANGED <<fetchVars, verifyVars, queryVars, runVars, callVars>>

VerifySpec == VerifyInit /\ [][VerifyNext]_vars

-----------------------------------------------------------------------------
\* The fetcher alone: one call, for every proxy list up to MaxProxies

FetchInit ==
    /\ fpc = "direct"
    /\ fcaller = "test"
    /\ fproxies \in SeqsUpTo(Addr, MaxProxies)
    /\ shuffled = <<>>
    /\ fidx = 0
    /\ r = None
    /\ r2 = None
    /\ fret = None
    /\ attempts = <<>>
    /\ accepted = <<>>
    /\ calls = <<"test">>
    /\ VerifyIdle
    /\ stop = FALSE
    /\ verified = <<>>
    /\ threads = 1
    /\ cpu = 1
    /\ QueryIdle
    /\ RunIdle
    /\ CallIdle

FetchNext ==
    \/ FetchDirect /\ UNCHANGED <<verifyVars, objVars, queryVars, runVars, callVars>>
    \/ FetchShuffle /\ UNCHANGED <<verifyVars, objVars, queryVars, runVars, callVars>>
    \/ FetchProxy /\ UNCHANGED <<verifyVars, objVars, queryVars, runVars, callVars>>
    \/ FetchFinal /\ UNCHANGED <<verifyVars, objVars, queryVars, runVars, callVars>>

FetchSpec == FetchInit /\ [][FetchNext]_vars

-----------------------------------------------------------------------------
\* GeoIntel.merge_geo_data.  A mapping is a function from keys to values; a
\* value is None, a string [str |-> characters], a number [num |-> n], a list
\* [list |-> items] or a nested mapping [dict |-> mapping]; the value of an "error" key is a text
\* as in the fetch wrappers.

Str(chars) == [str |-> chars]
Num(n) == [num |-> n]
Dict(mapping) == [dict |-> mapping]
List(items) == [list |-> items]
EmptyDict == [k \in {} |-> None]

\* a canonical field with no secondary key (None in the mapping table)
NoPath == <<>>

\* lines 384-395: the mapping table; a key path is the sequence of its
\* dot-separated parts
PrimaryPath ==
    [ip |-> <<"query">>, country |-> <<"country">>, region |-> <<"regionName">>,
     city |-> <<"city">>, lat |-> <<"lat">>, lon |-> <<"lon">>,
     timezone |-> <<"timezone">>, isp |-> <<"isp">>, org |-> <<"org">>,
     asn |-> <<"as">>]

SecondaryPath ==
    [ip |-> <<"ip">>, country |-> <<"country">>, region |-> <<"region">>,
     city |-> <<"city">>, lat |-> <<"latitude">>, lon |-> <<"longitude">>,
     timezone |-> NoPath, isp |-> <<"connection", "isp">>, org |-> <<"org">>,
     asn |-> <<"connection", "asn">>]

\* dict.get(key)
Get(mapping, key) == IF key \in DOMAIN mapping THEN mapping[key] ELSE None

RECURSIVE Walk_Unguarded(_, _)
\* a walk without the isinstance test: cur.get on a value that is no mapping
\* is an AttributeError
Walk_Unguarded(cur, parts) ==
    IF parts = <<>> THEN cur
    ELSE IF "dict" \notin DOMAIN cur THEN [raised |-> "AttributeError"]
    ELSE Walk_Unguarded(Get(cur.dict, Head(parts)), Tail(parts))

RECURSIVE Walk(_, _)
\* lines 403-408: the loop over keypath.split(".")
Walk(cur, parts) ==
    IF parts = <<>> THEN cur
    ELSE IF "dict" \notin DOMAIN cur THEN None
    ELSE Walk(Get(cur.dict, Head(parts)), Tail(parts))

\* lines 398-408
get_from(source, keypath) ==
    IF DOMAIN source = {} \/ keypath = NoPath THEN None
    ELSE IF Len(keypath) = 1 THEN Get(source, keypath[1])
    ELSE Walk(Dict(source), keypath)

\* lines 412, 414: source.get("error") taken as a truth value
HasError(source) == Truthy(source, "error")

\* lines 410-416: one canonical field
MergedField(primary, secondary, out_key) ==
    LET val == IF DOMAIN primary # {} /\ ~HasError(primary)
               THEN get_from(primary, PrimaryPath[out_key])
               ELSE None
    IN  IF /\ val = None
           /\ DOMAIN secondary # {}
           /\ ~HasError(secondary)
           /\ SecondaryPath[out_key] # NoPath
        THEN get_from(secondary, SecondaryPath[out_key])
        ELSE val

\* lines 380-419 (the two raw sources attached at lines 417-418 are left out)
merge_geo_data(primary, secondary) ==
    [out_key \in DOMAIN PrimaryPath |-> MergedField(primary, secondary, out_key)]

TWonderland == <<"W", "o", "n", "d", "e", "r", "l", "a", "n", "d">>
TElsewhere == <<"E", "l", "s", "e", "w", "h", "e", "r", "e">>
TAcme == <<"A", "c", "m", "e">>

\* primary records: with or without an error (empty, or a reason), a country
\* (null, empty, a name) and a lat (null, zero, a number)
PrimaryError(i) ==
    CASE i = 1 -> EmptyDict
      [] i = 2 -> [error |-> <<>>]
      [] OTHER -> [error |-> NoResponseIpapi]

PrimaryCountry(i) ==
    CASE i = 1 -> EmptyDict
      [] i = 2 -> [country |-> None]
      [] i = 3 -> [country |-> Str(<<>>)]
      [] OTHER -> [country |-> Str(TWonderland)]

PrimaryLat(i) ==
    CASE i = 1 -> EmptyDict
      [] i = 2 -> [lat |-> None]
      [] i = 3 -> [lat |-> Num(0)]
      [] OTHER -> [lat |-> Num(48)]

\* secondary records: with or without an error, a country, a latitude and a
\* connection (null, a string, a list, a mapping with an isp and no asn)
SecondaryError(i) ==
    CASE i = 1 -> EmptyDict
      [] OTHER -> [error |-> NoResponseIpwho]

SecondaryCountry(i) ==
    CASE i = 1 -> EmptyDict
      [] OTHER -> [country |-> Str(TElsewhere)]

SecondaryLat(i) ==
    CASE i = 1 -> EmptyDict
      [] OTHER -> [latitude |-> Num(51)]

SecondaryConnection(i) ==
    CASE i = 1 -> EmptyDict
      [] i = 2 -> [connection |-> None]
      [] i = 3 -> [connection |-> Str(TAcme)]
      [] i = 4 -> [connection |-> List(<<Str(TAcme)>>)]
      [] OTHER -> [connection |-> Dict([isp |-> Str(TAcme)])]

-----------------------------------------------------------------------------
\* Functions of the module called on their own, for every argument of a
\* bounded set

\* statuses on both sides of every threshold of the detector
Statuses == {200, 399, 400, 403, 429, 500, 503, 520, 521}

ChallengeInputs ==
    {None} \cup {Resp(st, t, JInvalid) : st \in Statuses, t \in SUBSET Phrases}

CallInit ==
    /\ \/ /\ fn = "is_cloudflare_challenge"
          /\ cargs \in ChallengeInputs
          /\ file = NoFile
       \/ /\ fn = "merge_geo_data"
          /\ \E e, la \in 1..3, c \in 1..4, e2, c2, la2 \in 1..2, cn \in 1..5 :
                cargs = [primary |-> PrimaryError(e) @@ PrimaryCountry(c) @@ PrimaryLat(la),
                         secondary |-> SecondaryError(e2) @@ SecondaryCountry(c2)
                                          @@ SecondaryLat(la2) @@ SecondaryConnection(cn)]
          /\ file = NoFile
       \/ /\ fn = "save_working_proxies"
          /\ cargs \in SeqsUpTo(Addr, MaxProxies)
          /\ file \in FileInputs
    /\ cpc = "call"
    /\ cret = <<>>
    /\ pc = "idle"
    /\ proxies = <<>>
    /\ src = 0
    /\ all_proxies = <<>>
    /\ scraped = <<>>
    /\ lastSave = "none"
    /\ FetchIdle
    /\ VerifyIdle
    /\ stop = FALSE
    /\ verified = <<>>
    /\ threads = 1
    /\ cpu = 1
    /\ QueryIdle

CallChallenge ==
    /\ fn = "is_cloudflare_challenge"
    /\ cpc = "call"
    /\ cret' = is_cloudflare_challenge(cargs)
    /\ cpc' = "ret"
    /\ UNCHANGED <<fn, cargs, fetchVars, verifyVars, objVars, queryVars, runVars>>

CallMerge ==
    /\ fn = "merge_geo_data"
    /\ cpc = "call"
    /\ cret' = merge_geo_data(cargs.primary, cargs.secondary)
    /\ cpc' = "ret"
    /\ UNCHANGED <<fn, cargs, fetchVars, verifyVars, objVars, queryVars, runVars>>

\* save_working_proxies(path, cargs), however it ends
CallSave ==
    /\ fn = "save_working_proxies"
    /\ cpc = "call"
    /\ \E o \in SaveOutcomes(cargs) :
        /\ file' = Saved(file, cargs, o[1], o[2])
        /\ lastSave' = IF o[1] = "ok" THEN "ok" ELSE "failed"
    /\ cpc' = "saved"
    /\ UNCHANGED <<fn, cargs, cret, pc, proxies, src, all_proxies, scraped>>
    /\ UNCHANGED <<fetchVars, verifyVars, objVars, queryVars>>

\* load_saved_proxies(path) after it
CallLoad ==
    /\ cpc = "saved"
    /\ cret' = load_saved_proxies(file)
    /\ cpc' = "ret"
    /\ UNCHANGED <<fn, cargs, fetchVars, verifyVars, objVars, queryVars, runVars>>

CallNext ==
    \/ CallChallenge
    \/ CallMerge
    \/ CallSave
    \/ CallLoad

CallSpec == CallInit /\ [][CallNext]_vars

-----------------------------------------------------------------------------
\* Claims about requests_with_optional_proxy (checked under FetchSpec)

NoneAccepted == \A i \in DOMAIN accepted : ~accepted[i]

\* C1: the direct attempt comes first, the proxies follow one at a time in
\* the shuffled order, and the first attempt that comes back 2xx and not a
\* challenge is the last attempt of the call and its response is returned.
C1_DirectThenShuffledUntilSuccess ==
    /\ Len(accepted) = Len(attempts)
    /\ attempts # <<>> => attempts[1] = "direct"
    /\ Len(attempts) <= 1 + Len(shuffled)
    /\ \A i \in 2..Len(attempts) : attempts[i] = shuffled[i - 1]
    /\ \A i \in 1..(Len(attempts) - 1) : ~accepted[i]
    /\ (Len(attempts) > 1 /\ accepted[Len(attempts)]) => fpc = "ret" /\ fret = r2
    /\ (Len(attempts) = 1 /\ accepted[1]) => fpc = "ret" /\ fret = r

\* the spec's example: direct challenged, three proxies, the second succeeds
C1_Witness ==
    /\ fpc = "ret"
    /\ Len(shuffled) = 3
    /\ Cardinality(Range(shuffled)) = 3
    /\ is_cloudflare_challenge(r)
    /\ attempts = <<"direct", shuffled[1], shuffled[2]>>
    /\ accepted = <<FALSE, FALSE, TRUE>>
    /\ fret = r2

\* C2 (as claimed): no address is attempted twice in one call, and the call
\* makes at most 1 + (number of distinct proxies) attempts.
C2_NoAddressAttemptedTwice ==
    /\ \A i, j \in DOMAIN attempts : i # j => attempts[i] # attempts[j]
    /\ Len(attempts) <= 1 + Cardinality(Range(fproxies))

\* C3 (as claimed): when no attempt of a finished call was acceptable, the
\* call returned None and raised nothing.
C3_ExhaustedReturnsNone ==
    (fpc \in {"ret", "raised"} /\ NoneAccepted) => fpc = "ret" /\ fret = None

\* C3 (amended): no call ends by raising; when no attempt of a finished call
\* was acceptable the call returns None, unless the direct response had a 2xx
\* status and was a challenge, and then it returns that direct response.
C3_ExhaustedNeverRaises ==
    /\ fpc # "raised"
    /\ (fpc = "ret" /\ NoneAccepted) =>
         IF r # None /\ Is2xx(r) /\ is_cloudflare_challenge(r)
         THEN fret = r
         ELSE fret = None

\* direct raised, two proxies failed, None came back
C3_Witness ==
    /\ fpc = "ret"
    /\ r = None
    /\ Len(attempts) = 3
    /\ NoneAccepted
    /\ fret = None

-----------------------------------------------------------------------------
\* Claims about verify_proxies and verify_proxy_full (checked under VerifySpec)

\* the futures whose connect check and forwarding check both passed
Passing == {i \in DOMAIN tasks : tasks[i].conn = "ok" /\ tasks[i].fwd = "ok"}

\* C4: with no cancellation, what verify_proxies returns (and leaves in
\* self.verified) holds exactly the candidates whose two checks both passed,
\* once per passing check, whatever the completion order and worker count.
C4_ReturnsExactlyThePassing ==
    (vpc = "ret" /\ ~stop) =>
        /\ Range(vret) = {cands[i] : i \in Passing}
        /\ Len(vret) = Cardinality(Passing)
        /\ cands # <<>> => verified = vret

\* two workers, three candidates: one refused, one not forwarding, one good,
\* and the good one is not the first of the list
C4_Witness ==
    /\ vpc = "ret"
    /\ ~stop
    /\ max_workers = 2
    /\ Len(cands) = 3
    /\ tasks[1].conn = "fail"
    /\ \E i \in DOMAIN tasks : tasks[i].conn = "ok" /\ tasks[i].fwd = "fail"
    /\ Passing # {}
    /\ Range(vret) = {cands[i] : i \in Passing}

\* C5: the forwarding check of a candidate is issued only after its connect
\* check passed; a candidate whose connect check failed is rejected with no
\* forwarding request made.
C5_ForwardOnlyAfterConnect ==
    \A i \in DOMAIN tasks :
        /\ tasks[i].fwd # "none" => tasks[i].conn = "ok"
        /\ tasks[i].conn = "fail" =>
             tasks[i].st = "done" /\ ~tasks[i].res /\ tasks[i].fwd = "none"

\* one candidate rejected at stage 1, another with its stage 2 issued
C5_Witness ==
    /\ \E i \in DOMAIN tasks : tasks[i].conn = "fail" /\ tasks[i].st = "done"
    /\ \E i \in DOMAIN tasks : tasks[i].conn = "ok" /\ tasks[i].fwd = "sent"

\* C7 (as claimed): once the loop has seen the stop event, no check that was
\* still queued is started.
C7_NoCheckStartedAfterObserved ==
    [][broke => \A i \in DOMAIN tasks :
                    tasks[i].st = "queued" => tasks'[i].st = "queued"]_vars

\* C11: never more checks in flight than the worker bound; with no explicit
\* worker count the bound is min(default cap, max(10, 5 * CPU count)), which
\* is at most the default cap however long the candidate list.
C11_InFlightBounded ==
    /\ Cardinality(Running) <= max_workers
    /\ threads # 0 => max_workers = threads
    /\ threads = 0 =>
        /\ max_workers <= 50
        /\ max_workers >= 10
        /\ cpu # 0 =>
            /\ 5 * cpu <= 10 => max_workers = 10
            /\ (10 <= 5 * cpu /\ 5 * cpu <= 50) => max_workers = 5 * cpu
            /\ 5 * cpu >= 50 => max_workers = 50

\* one worker, one check in flight and another candidate still queued
C11_Witness ==
    /\ max_workers = 1
    /\ Cardinality(Running) = 1
    /\ Queued # {}

-----------------------------------------------------------------------------
\* Claims about a whole run (checked under Spec)

\* the addresses whose connect check and forwarding check both passed in
\* this run
PassedBoth == {cands[i] : i \in Passing}

\* the proxy addresses the current fetch has sent a request through
ProxiesUsed == {attempts[i] : i \in {j \in DOMAIN attempts : attempts[j] # "direct"}}

\* C6: every address a fetch attempt of the run goes through passed both
\* checks in this run; an address that was only loaded from the saved file
\* and did not pass re-verification never reaches the fetcher.
C6_OnlyVerifiedReachTheFetcher ==
    /\ ProxiesUsed \subseteq PassedBoth
    /\ fpc # "idle" => Range(fproxies) \subseteq PassedBoth

\* the candidates are the two lines of the saved file (which still holds
\* them), one of them failed re-verification, and a fetch has gone through the
\* other one
C6_Witness ==
    /\ cands = load_saved_proxies(file)
    /\ Len(cands) = 2
    /\ \E k \in DOMAIN cands : cands[k] \notin PassedBoth
    /\ ProxiesUsed # {}

\* C8 (as claimed): once the retry loop has seen the stop event, no ip-api
\* and no ipwho.is fetch is started in the query.
C8_NoFetchAfterObserved ==
    [][observed =>
          \/ calls' = calls
          \/ calls'[Len(calls')] \notin {"ipapi", "ipwho"}]_vars

\* C9 (as claimed): after a verification that was cancelled part-way, the
\* verified list holds only candidates that passed both checks, and when the
\* run ends this list is what the saved file holds (unless writing failed).
C9_PartialListValidAndSaved ==
    (pc = "done" /\ broke) =>
        /\ Range(verified) \subseteq PassedBoth
        /\ lastSave # "failed" => load_saved_proxies(file) = verified

\* the error text of a result contains "429" (in any letter case)
RateLimitIndicated(result) ==
    /\ "error" \in DOMAIN result
    /\ \E i \in 1..(Len(result.error) - 2) :
          /\ result.error[i] = "4"
          /\ result.error[i + 1] = "2"
          /\ result.error[i + 2] = "9"

\* the ip-api fetches made so far in the run (one query per run)
IpapiFetches == {i \in DOMAIN calls : calls[i] = "ipapi"}

\* C10: a query makes at most 3 ip-api fetches, and a fetch after the first
\* is made only when the result of the one before indicates a rate limit; a
\* success or any other error ends the loop at that attempt.
C10_AtMostThreeAndOnlyAfterRateLimit ==
    [][/\ Cardinality(IpapiFetches') <= 3
       /\ tries' <= 3
       /\ (tries' > tries /\ tries >= 1) => RateLimitIndicated(ipapi)
       /\ (qpc = "ipapi" /\ qpc' = "loop") => RateLimitIndicated(ipapi')
       /\ (qpc = "ipapi" /\ qpc' # qpc /\ ~RateLimitIndicated(ipapi')) => qpc' = "ipwho"]_vars

\* three ip-api fetches, each answered with a rate-limit error, and the loop
\* is over
C10_Witness ==
    /\ qpc = "ipwho"
    /\ tries = 3
    /\ Cardinality(IpapiFetches) = 3
    /\ RateLimitIndicated(ipapi)
    /\ Len(sleeps) = 3

\* C12 (as claimed): in a run no address is checked by two futures, and no
\* address is twice in the verified list.
C12_EachAddressCheckedOnce ==
    /\ \A i, j \in DOMAIN tasks :
          (i # j /\ tasks[i].st # "queued" /\ tasks[j].st # "queued")
              => cands[i] # cands[j]
    /\ \A i, j \in DOMAIN verified : i # j => verified[i] # verified[j]

-----------------------------------------------------------------------------
\* Claims about scrape_proxies (checked under Spec)

RECURSIVE FoundInOrder(_)
\* what the sources scraped so far returned, source after source
FoundInOrder(done) ==
    IF done = <<>> THEN <<>>
    ELSE FoundInOrder(SubSeq(done, 1, Len(done) - 1)) \o done[Len(done)].found

\* the position at which x is first seen in list
FirstSeen(list, x) ==
    CHOOSE i \in DOMAIN list : list[i] = x /\ \A j \in 1..(i - 1) : list[j] # x

\* C13: what scrape_proxies returns has no address twice, holds every address
\* some source gave, and lists them in first-seen order: order of the sources,
\* then order within a source.
C13_DedupInFirstSeenOrder ==
    [][(pc = "dedup" /\ pc' = "verify") =>
          LET seen == FoundInOrder(scraped) IN
          /\ \A i, j \in DOMAIN proxies' : i # j => proxies'[i] # proxies'[j]
          /\ Range(proxies') = Range(seen)
          /\ \A i, j \in DOMAIN proxies' :
                i < j => FirstSeen(seen, proxies'[i]) < FirstSeen(seen, proxies'[j])]_vars

\* nothing was loaded, and the scrape gave 10.0.0.1:80 before 10.0.0.2:80:
\* the only page that lists 10.0.0.2:80 lists 10.0.0.1:80 after it, so
\* 10.0.0.1:80 came from an earlier source too
C13_Witness ==
    /\ pc = "verify"
    /\ file = NoFile
    /\ cands = <<>>
    /\ proxies = <<"10.0.0.1:80", "10.0.0.2:80">>

Failures == {"network error", "http error", "no table"}

\* C14: a source that fails gives no address and does not end the batch: the
\* loop goes on to the next source (it ends early on the stop event only),
\* and what every source gave, those after a failed one included, is in the
\* result.
C14_FailedSourceGivesNothingAndBatchGoesOn ==
    [][/\ \A i \in DOMAIN scraped' :
             scraped'[i].kind \in Failures => scraped'[i].found = <<>>
       /\ all_proxies' = FoundInOrder(scraped')
       /\ Len(scraped') > Len(scraped) =>
             /\ pc' \in {"scrape", "dedup"}
             /\ pc' = "dedup" => (stop \/ Len(scraped') = NumSources)
       /\ (pc = "dedup" /\ pc' = "verify") =>
             \A i \in DOMAIN scraped : Range(scraped[i].found) \subseteq Range(proxies')]_vars

\* the first source failed on the network, a later one was scraped and its
\* addresses are in the list
C14_Witness ==
    /\ pc = "dedup"
    /\ Len(scraped) >= 2
    /\ scraped[1].kind = "network error"
    /\ scraped[Len(scraped)].kind = "page"
    /\ scraped[Len(scraped)].found # <<>>
    /\ all_proxies = scraped[Len(scraped)].found

-----------------------------------------------------------------------------
\* Claims about functions called on their own (checked under CallSpec)

\* the body holds the phrase (the word Cloudflare is also in the phrase
\* "DDoS protection by Cloudflare")
BodyHas(body, phrase) ==
    \/ phrase \in body
    \/ phrase = "Cloudflare" /\ "DDoS protection by Cloudflare" \in body

\* C15: is_cloudflare_challenge is true exactly when the status is one of
\* 403, 503, 520, 521 and the body has cf-mitigation or
\* cf-browser-verification, or the body has one of the four interstitial
\* phrases (any status), or the body has the word Cloudflare and the status is
\* 400 or more; it is false for no response and for a 429 with an empty body.
C15_ChallengeExactlyByTheRules ==
    (fn = "is_cloudflare_challenge" /\ cpc = "ret") =>
        IF cargs = None THEN cret = FALSE
        ELSE /\ cret <=>
                  \/ /\ cargs.status \in {403, 503, 520, 521}
                     /\ \E m \in {"cf-mitigation", "cf-browser-verification"} :
                           BodyHas(cargs.text, m)
                  \/ \E ph \in {"Just a moment...", "DDoS protection by Cloudflare",
                                "Checking your browser before accessing",
                                "Attention Required!"} : BodyHas(cargs.text, ph)
                  \/ BodyHas(cargs.text, "Cloudflare") /\ cargs.status >= 400
             /\ (cargs.status = 429 /\ cargs.text = {}) => cret = FALSE

\* the word Cloudflare alone in a 200 body: no challenge
C15_Witness ==
    /\ fn = "is_cloudflare_challenge"
    /\ cpc = "ret"
    /\ cargs # None
    /\ cargs.status = 200
    /\ cargs.text = {"Cloudflare"}
    /\ cret = FALSE

\* the value under a key, null when the key is missing
ValueAt(mapping, key) == IF key \in DOMAIN mapping THEN mapping[key] ELSE None

\* the secondary's value for a canonical field: none for timezone, under
\* connection for isp and asn, else under the field's secondary key
SecondaryValue(secondary, field) ==
    CASE field = "timezone" -> None
      [] field \in {"isp", "asn"} ->
            LET conn == ValueAt(secondary, "connection") IN
            IF "dict" \in DOMAIN conn
            THEN ValueAt(conn.dict, IF field = "isp" THEN "isp" ELSE "asn")
            ELSE None
      [] field = "ip" -> ValueAt(secondary, "ip")
      [] field = "lat" -> ValueAt(secondary, "latitude")
      [] field = "lon" -> ValueAt(secondary, "longitude")
      [] OTHER -> ValueAt(secondary, field)

\* the primary's value for a canonical field
PrimaryValue(primary, field) ==
    CASE field = "ip" -> ValueAt(primary, "query")
      [] field = "region" -> ValueAt(primary, "regionName")
      [] field = "asn" -> ValueAt(primary, "as")
      [] OTHER -> ValueAt(primary, field)

CanonicalFields ==
    {"ip", "country", "region", "city", "lat", "lon", "timezone", "isp", "org", "asn"}

\* C16 (as claimed, the error marker being the `error` key): every canonical
\* field is the primary's value when the primary has no error marker and the
\* value is not null (zero and the empty string are values), else the
\* secondary's value under the same condition, else null; the merged record
\* has the ten canonical fields.
C16_PrimaryThenSecondaryThenNull ==
    (fn = "merge_geo_data" /\ cpc = "ret") =>
        /\ DOMAIN cret = CanonicalFields
        /\ \A field \in CanonicalFields :
              LET p == PrimaryValue(cargs.primary, field)
                  q == SecondaryValue(cargs.secondary, field)
              IN  cret[field] =
                    IF "error" \notin DOMAIN cargs.primary /\ p # None THEN p
                    ELSE IF "error" \notin DOMAIN cargs.secondary THEN q
                    ELSE None

\* C17 (as claimed): when the primary has an `error` key, whatever its value,
\* no canonical field comes from the primary: every field is what the
\* secondary alone gives.
C17_ErrorKeyBypassesPrimary ==
    (fn = "merge_geo_data" /\ cpc = "ret" /\ "error" \in DOMAIN cargs.primary) =>
        \A field \in CanonicalFields :
            cret[field] =
                IF "error" \notin DOMAIN cargs.secondary
                THEN SecondaryValue(cargs.secondary, field)
                ELSE None

\* C18: a list saved with save_working_proxies and loaded back with
\* load_saved_proxies from the same path gives the same set of addresses
\* (here: when the file could be opened and written), the empty list and
\* lists with repeated addresses included.
C18_SaveThenLoadGivesTheSameSet ==
    (fn = "save_working_proxies" /\ cpc = "ret" /\ lastSave = "ok") =>
        /\ Range(cret) = Range(cargs)
        /\ Len(cret) = Len(cargs)

\* a list with one address twice and another once, saved over a file that
\* held something else, and loaded back
C18_Witness ==
    /\ fn = "save_working_proxies"
    /\ cpc = "ret"
    /\ lastSave = "ok"
    /\ Len(cargs) = 3
    /\ cargs[1] = cargs[2]
    /\ cargs[3] # cargs[1]
    /\ cret = cargs

-----------------------------------------------------------------------------
\* More claims about requests_with_optional_proxy (checked under FetchSpec)

\* C19 (as claimed): a response that is returned has a 2xx status and is not
\* a challenge.
C19_ReturnedIsNeverAChallenge ==
    (fpc = "ret" /\ fret # None) =>
        /\ 200 <= fret.status
        /\ fret.status < 300
        /\ ~is_cloudflare_challenge(fret)

\* C19 (amended): a response that is returned has a 2xx status; it is not a
\* challenge, except that the direct response is returned though it is a
\* challenge, when it had a 2xx status and every proxy of the list was tried
\* without success.
C19_ReturnedIs2xxAndChallengeOnlyAsLastResort ==
    (fpc = "ret" /\ fret # None) =>
        /\ 200 <= fret.status
        /\ fret.status < 300
        /\ is_cloudflare_challenge(fret) =>
              /\ fret = r
              /\ NoneAccepted
              /\ Len(attempts) = 1 + Len(fproxies)

\* the direct response was a 2xx challenge, two proxies failed, and the
\* challenge page came back
C19_Witness ==
    /\ fpc = "ret"
    /\ Len(fproxies) = 2
    /\ Len(attempts) = 3
    /\ fret # None
    /\ fret = r
    /\ is_cloudflare_challenge(fret)

\* C20: no kind of proxy failure ends the loop early (nor raises): a call
\* ends without an acceptable response only after every proxy of the list was
\* tried, so a proxy that answers 2xx and not a challenge is reached, and
\* what it answered is returned.
C20_EveryProxyFailureMovesOn ==
    /\ fpc # "raised"
    /\ (fpc \in {"final", "ret"} /\ NoneAccepted) =>
          Len(attempts) = 1 + Len(fproxies)
    /\ (fpc = "ret" /\ ~NoneAccepted) =>
          /\ fret # None
          /\ 200 <= fret.status /\ fret.status < 300
          /\ ~is_cloudflare_challenge(fret)

\* three proxies: the direct attempt and the first two proxies failed, the
\* third answered and its response is returned
C20_Witness ==
    /\ fpc = "ret"
    /\ Len(fproxies) = 3
    /\ accepted = <<FALSE, FALSE, FALSE, TRUE>>
    /\ fret = r2
    /\ fret # None

-----------------------------------------------------------------------------
\* More claims about a whole run (checked under Spec)

RECURSIVE SumOf(_)
SumOf(list) == IF list = <<>> THEN 0 ELSE list[1] + SumOf(Tail(list))

\* C21 (as claimed): the backoff sleeps of a query are 1 then 2 time units,
\* a sleep happens only between two ip-api attempts (once the loop is over
\* there are fewer sleeps than attempts, unless the loop ended on the stop
\* event), and a query sleeps at most 1 + 2 = 3 time units in all.
C21_SleepsOnlyBetweenAttempts ==
    /\ \A i \in DOMAIN sleeps : sleeps[i] = 2 ^ (i - 1)
    /\ Len(sleeps) <= 2
    /\ SumOf(sleeps) <= 3
    /\ (qpc \in {"ipwho", "ipwho_wait", "done"} /\ ~observed) => Len(sleeps) < tries

\* C22 (as claimed): when a run is over and no save failed in it, every
\* address in the saved file passed both checks in this run, also when the
\* run verified no proxy at all.
C22_FileHoldsOnlyThisRunsVerified ==
    (pc = "done" /\ lastSave # "failed") =>
        Range(load_saved_proxies(file)) \subseteq PassedBoth

-----------------------------------------------------------------------------
\* One more claim about merge_geo_data (checked under CallSpec)

\* C23: get_from walks a dotted path part by part and gives null as soon as
\* the value it stands on is no mapping (the key was missing, or its value is
\* null, a string or a list), and raises nothing: the merged isp and asn,
\* which the primary records here do not have and the secondary has under
\* connection, are null whenever the secondary's connection is no mapping or
\* lacks the key, and are the value under the key otherwise.
C23_DottedPathGivesNullOffAMapping ==
    (fn = "merge_geo_data" /\ cpc = "ret") =>
        \A field \in {"isp", "asn"} :
            LET sec == cargs.secondary
                usable == "error" \notin DOMAIN sec /\ "connection" \in DOMAIN sec
            IN  /\ "raised" \notin DOMAIN cret[field]
                /\ cret[field] =
                      IF /\ usable
                         /\ "dict" \in DOMAIN sec.connection
                         /\ field \in DOMAIN sec.connection.dict
                      THEN sec.connection.dict[field]
                      ELSE None

\* a secondary without error whose connection is a list: isp and asn are null
C23_Witness ==
    /\ fn = "merge_geo_data"
    /\ cpc = "ret"
    /\ "error" \notin DOMAIN cargs.secondary
    /\ "connection" \in DOMAIN cargs.secondary
    /\ "list" \in DOMAIN cargs.secondary.connection
    /\ cret.isp = None
    /\ cret.asn = None

====
